---------------------------- MODULE Spec2Model ----------------------------
(***************************************************************************)
(* A model of the DER decoder of package der (src/der/der.go).             *)
(*                                                                         *)
(* Parse is a loop over parseElement; parseElement decodes one TLV         *)
(* element, calls decodeLength for the length prefix, dispatches on the    *)
(* type byte and, for SEQUENCE and SET, calls Parse again on the content.  *)
(*                                                                         *)
(* Bytes are the integers 0..255.  A Go int (and the int64 of             *)
(* handleInteger) is a two's complement register of IntBytes bytes, kept   *)
(* as a sequence of bytes, most significant first, so that the wrap-around *)
(* of length*256 + b and build*128 + b is exact.  A nil error is the value    *)
(* Nil; any other error is its message.  A run-time panic of the Go        *)
(* program (index or slice bound out of range) is the outcome "panic".     *)
(***************************************************************************)
EXTENDS Integers, Sequences, FiniteSets

(***************************************************************************)
(* The constants of der.go, lines 14-53.                                   *)
(***************************************************************************)
classUniversal == 0
classApplication == 64
classContextSpecific == 128
classPrivate == 192

composed == 32
primitive == 0

typeEndOfContent == 0
typeBoolean == 1
typeInteger == 2
typeBitString == 3
typeOctetString == 4
typeNull == 5
typeObjectIdentifier == 6
typeObjectDescription == 7
typeExternal == 8
typeReal == 9
typeEnumerated == 10
typeEmbeddedPDV == 11
typeUtf8String == 12
typeRelativeOID == 13
typeSequence == 16
typeSet == 17
typeNumericString == 18
typePrintableString == 19
typeT61String == 20
typeVideotexString == 21
typeIA5String == 22
typeUTCTime == 23
typeGeneralizedTime == 24
typeGraphicString == 25
typeVisibleString == 26
typeGeneralString == 27
typeUniversalString == 28
typeCharacterString == 29
typeBMPString == 30
typeIsLongFormTag == 31

(***************************************************************************)
(* The width in bytes of Go's int on the 64-bit targets the tool is built  *)
(* for, and of the int64 of handleInteger.                                 *)
(***************************************************************************)
IntBytes == 8

Nil == "<nil>"

(***************************************************************************)
(* Go's slice expressions s[n:] and s[:n] on a slice that has the bytes.   *)
(***************************************************************************)
SliceFrom(s, n) == SubSeq(s, n + 1, Len(s))

SliceTo(s, n) == SubSeq(s, 1, n)

(***************************************************************************)
(* Fixed-width two's complement integers: Go's int and int64.              *)
(***************************************************************************)
\* n zero bytes
RECURSIVE Zeros(_)
Zeros(n) == IF n = 0 THEN <<>> ELSE Append(Zeros(n - 1), 0)

\* the base-256 digits of the natural v, least significant last
RECURSIVE Base256(_)
Base256(v) == IF v < 256 THEN <<v>> ELSE Append(Base256(v \div 256), v % 256)

\* int(v) for a byte or a slice length v
IntOf(v) ==
    LET d == Base256(v)
    IN  Zeros(IntBytes - Len(d)) \o d

\* x *= 256; x += v  for a byte v, modulo 2^(8*IntBytes): the top byte is
\* lost and v becomes the low byte.
MulAdd256(x, v) == Append(Tail(x), v)

\* x *= 128; x += v  for 0 <= v < 128, modulo 2^(8*IntBytes): x shifted
\* left by 7 bits, the top 7 bits lost, v in the low 7 bits.
MulAdd128(x, v) ==
    LET y == Append(Tail(x), 2 * v)
    IN  SubSeq([i \in 1..IntBytes |-> (x[i] % 2) * 128 + (y[i] \div 2)],
               1, IntBytes)

IntIsNeg(x) == x[1] >= 128

\* a < b as signed integers
IntLess(a, b) ==
    IF IntIsNeg(a) # IntIsNeg(b) THEN IntIsNeg(a)
    ELSE \E i \in 1..IntBytes :
            /\ a[i] < b[i]
            /\ \A j \in 1..(i - 1) : a[j] = b[j]

\* the natural held by a register whose value is below 256^3 (every
\* register the model turns into a slice bound is at most a slice length)
IntValue(x) ==
    (x[IntBytes - 2] * 256 + x[IntBytes - 1]) * 256 + x[IntBytes]

\* -x modulo 2^(8*IntBytes): the bytes above the lowest non-zero byte are
\* inverted, that byte is negated, the zero bytes below it stay zero
IntNegate(x) ==
    LET nz == {i \in 1..IntBytes : x[i] # 0}
        low == IF nz = {} THEN 0 ELSE CHOOSE i \in nz : \A j \in nz : j <= i
    IN  SubSeq([i \in 1..IntBytes |-> IF i < low THEN 255 - x[i]
                                      ELSE IF i = low THEN 256 - x[i]
                                      ELSE 0],
               1, IntBytes)

\* the long division of the unsigned register x by 10 over its bytes 1..i:
\* the quotient's bytes and the remainder
RECURSIVE DivTen(_, _)
DivTen(x, i) ==
    IF i = 0 THEN [q |-> <<>>, r |-> 0]
    ELSE LET p == DivTen(x, i - 1)
             n == 256 * p.r + x[i]
         IN  [q |-> Append(p.q, n \div 10), r |-> n % 10]

Digits == <<"0", "1", "2", "3", "4", "5", "6", "7", "8", "9">>

\* the decimal digits of the unsigned register x
RECURSIVE FormatUnsigned(_)
FormatUnsigned(x) ==
    LET d == DivTen(x, IntBytes)
    IN  IF \A i \in 1..IntBytes : d.q[i] = 0 THEN Digits[d.r + 1]
        ELSE FormatUnsigned(d.q) \o Digits[d.r + 1]

\* strconv.Itoa and the %d verb on an int or int64
FormatInt(x) ==
    IF IntIsNeg(x) THEN "-" \o FormatUnsigned(IntNegate(x))
    ELSE FormatUnsigned(x)

\* strconv.Itoa of a slice length
Itoa(n) == FormatInt(IntOf(n))

(***************************************************************************)
(* The output sink (package indenter, an external collaborator).  An       *)
(* Indenter is the pair of its depth and the text written so far; the text *)
(* is the sequence of the writes, each with the depth it was written at    *)
(* and its payload: a sequence of literal strings and raw bytes.           *)
(***************************************************************************)
outPrint(out, s) == [out EXCEPT !.buf = Append(@, [lvl |-> out.lvl, s |-> <<s>>])]

\* out.Write(bytes), and the %s verb applied to byte slices inside text
outWrite(out, items) ==
    [out EXCEPT !.buf = Append(@, [lvl |-> out.lvl, s |-> items])]

NextLevel(out) == [out EXCEPT !.lvl = @ + 1]

\* the sink after a callee wrote to a deeper view of it
Resume(out, inner) == [out EXCEPT !.buf = inner.buf]

\* hinter.PrintHint: a best-effort comment on opaque bytes; the decoder
\* does not inspect what it writes, and the model has it write nothing
PrintHint(out, content) == out

\* oids.Name: the name of a dotted identifier, "" when it has none; the
\* model knows no names
oidsName(oid) == ""

HexUpper == <<"0", "1", "2", "3", "4", "5", "6", "7",
              "8", "9", "A", "B", "C", "D", "E", "F">>

HexLower == <<"0", "1", "2", "3", "4", "5", "6", "7",
              "8", "9", "a", "b", "c", "d", "e", "f">>

\* fmt's %02X and %02x of a byte
Hex02Upper(v) == HexUpper[(v \div 16) + 1] \o HexUpper[(v % 16) + 1]

Hex02Lower(v) == HexLower[(v \div 16) + 1] \o HexLower[(v % 16) + 1]

\* fmt's %d of a byte or of a small int
FormatByte(v) == FormatInt(IntOf(v))

(***************************************************************************)
(* printOctets, printString, handleData, handleString, handleInteger.      *)
(***************************************************************************)
RECURSIVE printOctetsLoop(_, _)
printOctetsLoop(out, content) ==
    IF content = <<>> THEN out
    ELSE printOctetsLoop(outPrint(out, Hex02Upper(Head(content))), Tail(content))

printOctets(out, content) == printOctetsLoop(outPrint(out, ":"), content)

RECURSIVE printString(_, _)
printString(out, content) ==
    IF content = <<>> THEN out
    ELSE LET v == Head(content)
             o == IF v = 10 THEN outPrint(out, "\\n")
                  ELSE IF v = 13 THEN outPrint(out, "\\r")
                  ELSE outWrite(out, <<v>>)
         IN  printString(o, Tail(content))

handleData(label, out, content) ==
    PrintHint(outPrint(printOctets(outPrint(out, label \o " "), content), "\n"),
              content)

handleString(label, out, content) ==
    outPrint(printString(outPrint(out, label \o " "), content), "\n")

\* the loop of handleInteger: value *= 256; value += int64(v)
RECURSIVE IntegerLoop(_, _)
IntegerLoop(value, content) ==
    IF content = <<>> THEN value
    ELSE IntegerLoop(MulAdd256(value, Head(content)), Tail(content))

handleInteger(label, out, content) ==
    IF Len(content) > 0 /\ Len(content) < 8 /\ content[1] < 128
    THEN LET value == IF content[1] < 128 THEN IntegerLoop(IntOf(0), content)
                      ELSE IntOf(0)
         IN  outPrint(out, label \o " " \o FormatInt(value) \o "\n")
    ELSE IF Len(content) > 8 \/ Len(content) = 0 \/ content[1] >= 128
    THEN handleData(label, out, content)
    ELSE out

(***************************************************************************)
(* utf16ToUtf8 and utf32ToUtf8: the decoders of golang.org/x/text, which   *)
(* replace what is not of the encoding by U+FFFD and report no error.      *)
(***************************************************************************)
RuneError == 65533

ValidRune(r) == (0 <= r /\ r < 55296) \/ (57343 < r /\ r <= 1114111)

\* utf8.EncodeRune
Utf8(r) ==
    IF ~ValidRune(r) THEN <<239, 191, 189>>
    ELSE IF r < 128 THEN <<r>>
    ELSE IF r < 2048 THEN <<192 + (r \div 64), 128 + (r % 64)>>
    ELSE IF r < 65536
    THEN <<224 + (r \div 4096), 128 + ((r \div 64) % 64), 128 + (r % 64)>>
    ELSE <<240 + (r \div 262144), 128 + ((r \div 4096) % 64),
           128 + ((r \div 64) % 64), 128 + (r % 64)>>

RECURSIVE Utf16Loop(_)
Utf16Loop(src) ==
    IF src = <<>> THEN <<>>
    ELSE IF Len(src) = 1 THEN Utf8(RuneError)
    ELSE LET x == src[1] * 256 + src[2]
             isSurr == 55296 <= x /\ x <= 57343
             y == IF Len(src) >= 4 THEN src[3] * 256 + src[4] ELSE 0
             pair == isSurr /\ Len(src) >= 4 /\ 56320 <= y /\ y <= 57343
         IN  IF pair
             THEN (IF x < 56320
                   THEN Utf8(65536 + (x - 55296) * 1024 + (y - 56320))
                   ELSE Utf8(RuneError)) \o Utf16Loop(SliceFrom(src, 4))
             ELSE Utf8(x) \o Utf16Loop(SliceFrom(src, 2))

utf16ToUtf8(input) == [b |-> Utf16Loop(input), err |-> Nil]

RECURSIVE Utf32Loop(_)
Utf32Loop(src) ==
    IF src = <<>> THEN <<>>
    ELSE IF Len(src) < 4 THEN Utf8(RuneError)
    ELSE LET r == IF src[1] # 0 \/ src[2] > 16 THEN RuneError
                  ELSE (src[2] * 256 + src[3]) * 256 + src[4]
         IN  Utf8(r) \o Utf32Loop(SliceFrom(src, 4))

utf32ToUtf8(input) == [b |-> Utf32Loop(input), err |-> Nil]

(***************************************************************************)
(* decodeLength.  The result is the named results of the Go function and   *)
(* fault, TRUE when the call panics (data[0] of an empty slice).           *)
(***************************************************************************)
\* for i := 0; i < numToRead; i++ { length *= 256; length += int(data[1+i]) }
RECURSIVE LengthLoop(_, _, _, _)
LengthLoop(length, data, i, numToRead) ==
    IF i < numToRead
    THEN LengthLoop(MulAdd256(length, data[1 + i + 1]), data, i + 1, numToRead)
    ELSE length

\* a decodeLength whose short form returns data in place of data[1:]
decodeLengthKeepsPrefix(data) ==
    IF Len(data) = 0
    THEN [length |-> IntOf(0), rest |-> <<>>, err |-> Nil, fault |-> TRUE]
    ELSE LET firstByte == data[1]
         IN  IF firstByte >= 128
             THEN LET numToRead == firstByte - 128
                  IN  IF Len(data) - 1 < numToRead
                      THEN [length |-> IntOf(0), rest |-> <<>>,
                            err |-> "Can't satisfy request to read "
                                    \o Itoa(numToRead)
                                    \o " bytes to get length",
                            fault |-> FALSE]
                      ELSE [length |-> LengthLoop(IntOf(0), data, 0, numToRead),
                            rest |-> SliceFrom(data, 1 + numToRead),
                            err |-> Nil, fault |-> FALSE]
             ELSE [length |-> IntOf(firstByte), rest |-> data,
                   err |-> Nil, fault |-> FALSE]

decodeLength(data) ==
    IF Len(data) = 0
    THEN [length |-> IntOf(0), rest |-> <<>>, err |-> Nil, fault |-> TRUE]
    ELSE LET firstByte == data[1]
         IN  IF firstByte >= 128
             THEN LET numToRead == firstByte - 128
                  IN  IF Len(data) - 1 < numToRead
                      THEN [length |-> IntOf(0), rest |-> <<>>,
                            err |-> "Can't satisfy request to read "
                                    \o Itoa(numToRead)
                                    \o " bytes to get length",
                            fault |-> FALSE]
                      ELSE [length |-> LengthLoop(IntOf(0), data, 0, numToRead),
                            rest |-> SliceFrom(data, 1 + numToRead),
                            err |-> Nil, fault |-> FALSE]
             ELSE [length |-> IntOf(firstByte), rest |-> SliceFrom(data, 1),
                   err |-> Nil, fault |-> FALSE]

(***************************************************************************)
(* Strings built piece by piece (oid += fmt.Sprintf(".%d", build)): a      *)
(* string under construction is the sequence of its pieces, so that        *)
(* oid[1:] of a string that starts with the piece "." is its tail.         *)
(***************************************************************************)
RECURSIVE Concat(_)
Concat(pieces) ==
    IF pieces = <<>> THEN "" ELSE Head(pieces) \o Concat(Tail(pieces))

\* for _, v := range content { build *= 128; build += int(v & 0x7f);
\*   if v&0x80 == 0 { oid += fmt.Sprintf(".%d", build); build = 0 } }
\* arcs records the values of build that were formatted.
RECURSIVE ArcLoop(_, _, _, _)
ArcLoop(oid, arcs, build, content) ==
    IF content = <<>> THEN [oid |-> oid, arcs |-> arcs]
    ELSE LET v == Head(content)
             b == MulAdd128(build, v % 128)
         IN  IF v < 128
             THEN ArcLoop(oid \o <<".", FormatInt(b)>>, Append(arcs, b),
                          IntOf(0), Tail(content))
             ELSE ArcLoop(oid, arcs, b, Tail(content))

(***************************************************************************)
(* parseElement and Parse.                                                 *)
(*                                                                         *)
(* Every call of parseElement leaves a record in calls, in the order the   *)
(* calls begin: its depth, its input, how far it got (stage), the length   *)
(* and the remainder decodeLength returned, the content and remainder it   *)
(* sliced off, its error, whether it panicked, what its content            *)
(* interpreter wrote, whether it decoded the content as a nested stream,   *)
(* and the arcs an OID interpreter emitted.                                *)
(***************************************************************************)
NoCall(out, data) ==
    [depth |-> out.lvl, data |-> data, typeByte |-> 0, stage |-> "short",
     length |-> IntOf(0), after |-> <<>>, avail |-> 0, content |-> <<>>,
     rest |-> <<>>,
     err |-> Nil, fault |-> FALSE, render |-> <<>>, recursed |-> FALSE,
     arcs |-> <<>>]

\* a dispatch that drops the class bits: switch typeTag | typeComposed
DispatchKeyAnyClass(typeByte) == typeByte % 64

\* the value of the switch of line 109
DispatchKey(typeByte) == typeByte

\* the label with the verb %x in place of %02x
UnhandledLabelNoPad(typeTag) ==
    "UNHANDLED-TAG=" \o (IF typeTag < 16 THEN HexLower[typeTag + 1]
                         ELSE Hex02Lower(typeTag))

\* the label of the default case
UnhandledLabel(typeTag) == "UNHANDLED-TAG=" \o Hex02Lower(typeTag)

\* an interpreter's outcome
Ok(out) == [err |-> Nil, fault |-> FALSE, out |-> out, calls |-> <<>>,
            recursed |-> FALSE, arcs |-> <<>>]

Fail(out, msg) == [Ok(out) EXCEPT !.err = msg]

Panic(out) == [Ok(out) EXCEPT !.fault = TRUE]

ClassLabel(typeClass) ==
    CASE typeClass = classUniversal -> "UNIVERSAL "
      [] typeClass = classApplication -> "APPLICATION "
      [] typeClass = classContextSpecific -> "CONTEXT-SPECIFIC "
      [] typeClass = classPrivate -> "PRIVATE "

ComposedLabel(typeComposed) ==
    CASE typeComposed = primitive -> "PRIMITIVE "
      [] typeComposed = composed -> "COMPOSED "

\* the comment line of a UTCTIME
UTCTimeComment(out, content) ==
    IF Len(content) = 13 /\ content[13] = 90
    THEN outWrite(out, <<"# 20">> \o SubSeq(content, 1, 2) \o <<"-">>
                       \o SubSeq(content, 3, 4) \o <<"-">>
                       \o SubSeq(content, 5, 6) \o <<" ">>
                       \o SubSeq(content, 7, 8) \o <<":">>
                       \o SubSeq(content, 9, 10) \o <<":">>
                       \o SubSeq(content, 11, 12) \o <<" GMT\n">>)
    ELSE IF Len(content) = 11 /\ content[11] = 90
    THEN outWrite(out, <<"# 20">> \o SubSeq(content, 1, 2) \o <<"-">>
                       \o SubSeq(content, 3, 4) \o <<"-">>
                       \o SubSeq(content, 5, 6) \o <<" ">>
                       \o SubSeq(content, 7, 8) \o <<":">>
                       \o SubSeq(content, 9, 10) \o <<":00 GMT\n">>)
    ELSE out

\* out.Println("OID", oid) and the hint of the name table
OidLines(label, out, oid) ==
    LET o == outPrint(out, label \o " " \o oid \o "\n")
        oidHint == oidsName(oid)
    IN  IF oidHint # "" THEN outPrint(o, "# " \o oidHint \o "\n") ELSE o

RECURSIVE Parse(_, _)
RECURSIVE parseElement(_, _)

\* the switch of lines 109-252 on an element whose content is sliced off
Interpret(out, typeByte, typeTag, contentLenInt, content) ==
    LET key == DispatchKey(typeByte)
        contentLen == Len(content)
    IN
    CASE key = typeEndOfContent + primitive ->
           IF contentLen # 0
           THEN Fail(out, "End-of-content had unexpected length "
                          \o FormatInt(contentLenInt))
           ELSE Ok(outPrint(out, "END-OF-CONTENT\n"))
      [] key = typeBoolean + primitive ->
           IF contentLen # 1
           THEN Fail(out, "Boolean had unexpected length "
                          \o FormatInt(contentLenInt))
           ELSE IF content[1] = 0 THEN Ok(outPrint(out, "BOOLEAN FALSE\n"))
           ELSE Ok(outPrint(out, "BOOLEAN TRUE\n"))
      [] key = typeInteger + primitive ->
           Ok(handleInteger("INTEGER", out, content))
      [] key = typeBitString + primitive ->
           IF contentLen < 1 THEN Fail(out, "BitString had no padding byte")
           ELSE LET padding == content[1]
                IN  IF padding < 0 \/ padding > 7
                    THEN Fail(out, "BitString padding has illegal value "
                                   \o FormatByte(padding))
                    ELSE Ok(outPrint(
                              printOctets(
                                outPrint(out, "BITSTRING PAD="
                                              \o FormatByte(padding) \o " "),
                                SliceFrom(content, 1)),
                              "\n"))
      [] key = typeOctetString + primitive ->
           Ok(handleData("OCTETSTRING", out, content))
      [] key = typeNull + primitive ->
           IF contentLen # 0 THEN Fail(out, "Null has non-zero content")
           ELSE Ok(outPrint(out, "NULL\n"))
      [] key = typeObjectIdentifier + primitive ->
           IF contentLen < 1 THEN Fail(out, "OID doesn't have content")
           ELSE LET first == content[1] \div 40
                    second == content[1] % 40
                    l == ArcLoop(<<FormatByte(first), ".", FormatByte(second)>>,
                                 <<>>, IntOf(0), SliceFrom(content, 1))
                IN  [Ok(OidLines("OID", out, Concat(l.oid)))
                       EXCEPT !.arcs = l.arcs]
      [] key = typeObjectDescription + primitive ->
           Ok(handleData("OBJECTDESCRIPTION", out, content))
      [] key = typeExternal + composed ->
           Ok(handleData("EXTERNAL", out, content))
      [] key = typeReal + primitive ->
           Ok(handleData("REAL", out, content))
      [] key = typeEnumerated + primitive ->
           Ok(handleInteger("ENUMERATED", out, content))
      [] key = typeEmbeddedPDV + composed ->
           Ok(handleData("EMBEDDED-PDV", out, content))
      [] key = typeUtf8String + primitive ->
           Ok(handleString("UTF8STRING", out, content))
      [] key = typeRelativeOID + primitive ->
           IF contentLen < 1
           THEN Fail(out, "Relative OID doesn't have content")
           ELSE LET l == ArcLoop(<<>>, <<>>, IntOf(0), content)
                IN  \* oid = oid[1:] panics on the empty string
                    IF l.oid = <<>> THEN Panic(out)
                    ELSE [Ok(OidLines("RELATIVEOID", out,
                                      Concat(Tail(l.oid))))
                            EXCEPT !.arcs = l.arcs]
      [] key = typeNumericString + primitive ->
           Ok(handleString("NUMERICSTRING", out, content))
      [] key = typePrintableString + primitive ->
           Ok(handleString("PRINTABLESTRING", out, content))
      [] key = typeSet + composed ->
           \* Parse(out.NextLevel(), content): the error it returns is dropped
           LET inner == Parse(NextLevel(outPrint(out, "SET\n")), content)
           IN  [err |-> Nil, fault |-> inner.fault,
                out |-> Resume(out, inner.out), calls |-> inner.calls,
                recursed |-> TRUE, arcs |-> <<>>]
      [] key = typeSequence + composed ->
           LET inner == Parse(NextLevel(outPrint(out, "SEQUENCE\n")), content)
           IN  [err |-> Nil, fault |-> inner.fault,
                out |-> Resume(out, inner.out), calls |-> inner.calls,
                recursed |-> TRUE, arcs |-> <<>>]
      [] key = typeT61String + primitive ->
           Ok(handleData("T61STRING", out, content))
      [] key = typeVideotexString + primitive ->
           Ok(handleData("VIDEOTEXSTRING", out, content))
      [] key = typeIA5String + primitive ->
           Ok(handleString("IA5STRING", out, content))
      [] key = typeUTCTime + primitive ->
           Ok(UTCTimeComment(handleData("UTCTIME", out, content), content))
      [] key = typeGeneralizedTime + primitive ->
           Ok(handleString("GENERALIZEDTIME", out, content))
      [] key = typeGraphicString + primitive ->
           Ok(handleData("GRAPHICSTRING", out, content))
      [] key = typeVisibleString + primitive ->
           Ok(handleString("VISIBLESTRING", out, content))
      [] key = typeGeneralString + primitive ->
           Ok(handleData("GENERALSTRING", out, content))
      [] key = typeUniversalString + primitive ->
           LET c == utf32ToUtf8(content)
           IN  IF c.err # Nil THEN Fail(out, c.err)
               ELSE Ok(handleString("UNIVERSALSTRING", out, c.b))
      [] key = typeCharacterString + primitive ->
           Ok(handleData("CHARACTERSTRING", out, content))
      [] key = typeBMPString + primitive ->
           LET c == utf16ToUtf8(content)
           IN  IF c.err # Nil THEN Fail(out, c.err)
               ELSE Ok(handleString("BMPSTRING", out, c.b))
      [] OTHER ->
           Ok(handleData(UnhandledLabel(typeTag), out, content))

\* the result of parseElement: rest, err, whether it panicked, the sink
\* after it, and the records of this call and of the calls under it
parseElement(out, data) ==
        IF Len(data) < 2
        THEN [rest |-> <<>>,
              err |-> "short DER read, need at least two bytes, got "
                      \o Itoa(Len(data)),
              fault |-> FALSE, out |-> out,
              calls |-> <<[NoCall(out, data) EXCEPT
                             !.err = "short DER read, need at least two bytes, got "
                                     \o Itoa(Len(data))]>>]
        ELSE
        LET typeByte == data[1]
            typeTag == typeByte % 32
            typeComposed == ((typeByte \div 32) % 2) * 32
            typeClass == (typeByte \div 64) * 64
            call == [NoCall(out, data) EXCEPT !.typeByte = typeByte]
        IN
        IF typeTag = typeIsLongFormTag
        THEN [rest |-> <<>>, err |-> "Long form DER types not implemented",
              fault |-> FALSE, out |-> out,
              calls |-> <<[call EXCEPT
                             !.stage = "longtag",
                             !.err = "Long form DER types not implemented"]>>]
        ELSE
        LET o == outPrint(outPrint(out, ClassLabel(typeClass)),
                          ComposedLabel(typeComposed))
            dl == decodeLength(SliceFrom(data, 1))
            avail == Len(dl.rest)
            c1 == [call EXCEPT !.length = dl.length, !.after = dl.rest,
                                  !.avail = avail]
        IN
        IF dl.fault
        THEN [rest |-> <<>>, err |-> Nil, fault |-> TRUE, out |-> o,
              calls |-> <<[c1 EXCEPT !.stage = "length", !.fault = TRUE]>>]
        ELSE IF dl.err # Nil
        THEN [rest |-> <<>>, err |-> dl.err, fault |-> FALSE, out |-> o,
              calls |-> <<[c1 EXCEPT !.stage = "length", !.err = dl.err]>>]
        ELSE IF IntLess(IntOf(avail), dl.length)
        THEN LET msg == "Short content, need " \o FormatInt(dl.length)
                        \o " bytes but have " \o Itoa(avail)
             IN  [rest |-> <<>>, err |-> msg, fault |-> FALSE, out |-> o,
                  calls |-> <<[c1 EXCEPT !.stage = "shortcontent", !.err = msg]>>]
        ELSE IF IntIsNeg(dl.length)
        THEN \* rest[:contentLen] with a negative bound panics
             [rest |-> <<>>, err |-> Nil, fault |-> TRUE, out |-> o,
              calls |-> <<[c1 EXCEPT !.stage = "slice", !.fault = TRUE]>>]
        ELSE
        LET contentLen == IntValue(dl.length)
            content == SliceTo(dl.rest, contentLen)
            rest == SliceFrom(dl.rest, contentLen)
            r == Interpret(o, typeByte, typeTag, dl.length, content)
            c2 == [c1 EXCEPT !.stage = "interpret", !.content = content,
                             !.rest = rest, !.err = r.err, !.fault = r.fault,
                             !.render = SliceFrom(r.out.buf, Len(o.buf)),
                             !.recursed = r.recursed, !.arcs = r.arcs]
        IN  [rest |-> IF r.err # Nil \/ r.fault THEN <<>> ELSE rest,
             err |-> r.err, fault |-> r.fault, out |-> r.out,
             calls |-> <<c2>> \o r.calls]

\* for len(data) > 0 { data, err = parseElement(out, data); ... }
Parse(out, data) ==
    IF Len(data) > 0
    THEN LET r == parseElement(out, data)
         IN  IF r.fault \/ r.err # Nil
             THEN [err |-> r.err, fault |-> r.fault, out |-> r.out,
                   calls |-> r.calls]
             ELSE LET t == Parse(r.out, r.rest)
                  IN  [t EXCEPT !.calls = r.calls \o @]
    ELSE [err |-> Nil, fault |-> FALSE, out |-> out, calls |-> <<>>]

(***************************************************************************)
(* The inputs: the byte buffers Parse is run on.                           *)
(***************************************************************************)
\* the longest buffer of the exhaustive family
MaxLen == 4

\* the largest count N of long-form length bytes
MaxLenBytes == 9

\* the longest INTEGER or ENUMERATED content
MaxIntLen == 9

\* the longest run of bytes that encodes one arc of an OID
MaxArcBytes == 10

\* the longest content of a wrapped SEQUENCE or SET
MaxInner == 2

\* EOC / length 0, BOOLEAN / length 1, INTEGER / length 2, RELATIVE OID,
\* the long-form tag, SEQUENCE, APPLICATION composed 16, and 0x80: a
\* context-specific tag, the long form of length with N = 0, a
\* continuation byte
ByteAlphabet == {0, 1, 2, 13, 31, 48, 112, 128}

Buffers(n) == UNION {[1..k -> ByteAlphabet] : k \in 0..n}

Fill(n, b) == [i \in 1..n |-> b]

\* every buffer over the alphabet up to MaxLen bytes
ShortInputs == Buffers(MaxLen)

\* n length bytes: a leading byte, zeros, a final byte
LengthBytes(n) ==
    IF n = 0 THEN {<<>>}
    ELSE IF n = 1 THEN {<<b>> : b \in {0, 1, 2, 3, 128}}
    ELSE {<<hi>> \o Fill(n - 2, 0) \o <<lo>> :
            hi \in {0, 1, 127, 128, 255}, lo \in {0, 2}}

\* an OCTET STRING or a context-specific element with a long-form length of
\* n bytes, followed by two bytes
LongFormInputs ==
    UNION {{<<t, 128 + n>> \o lb \o <<171, 205>> :
              t \in {4, 128}, lb \in LengthBytes(n)} : n \in 0..MaxLenBytes}

\* n content bytes of an integer: a leading byte, then all 0x00 or all 0xFF
IntegerContents(n) ==
    IF n = 0 THEN {<<>>}
    ELSE {<<hi>> \o Fill(n - 1, lo) :
            hi \in {0, 1, 127, 128, 255}, lo \in {0, 255}}

IntegerInputs ==
    UNION {{<<t, n>> \o c : t \in {2, 10}, c \in IntegerContents(n)} :
             n \in 0..MaxIntLen}

\* a run of n bytes for one arc: continuation bytes, then (or not) a final
\* byte with the top bit clear
ArcRuns(n) ==
    IF n = 0 THEN {<<>>}
    ELSE {<<hi>> \o Fill(n - 1, 128) : hi \in {129, 255}}
         \cup (IF n = 1 THEN {<<0>>, <<127>>}
               ELSE {<<hi>> \o Fill(n - 2, mid) \o <<lo>> :
                       hi \in {129, 255}, mid \in {128, 255}, lo \in {0, 127}})

\* an OBJECT IDENTIFIER or RELATIVE OID: a first byte, one run, and the
\* identifier 1.2.840.113549
OidInputs ==
    UNION {{<<t, 1 + n>> \o <<c0>> \o run :
              t \in {6, 13}, c0 \in {42, 136, 255}, run \in ArcRuns(n)} :
             n \in 0..MaxArcBytes}
    \cup {<<6, 6, 42, 134, 72, 134, 247, 13>>, <<6, 0>>, <<13, 0>>,
          <<13, 6, 42, 134, 72, 134, 247, 13>>}

\* every type byte with an empty content, one byte, and four bytes; BMP and
\* UNIVERSAL strings only with whole code units
TypeByteInputs ==
    {<<t, 0>> : t \in 0..255}
    \cup {<<t, 1, 7>> : t \in (0..255) \ {28, 30}}
    \cup {<<t, 4, 0, 65, 0, 10>> : t \in 0..255}

\* a composed element of tag 16 or 17 in each class around a buffer,
\* followed or not by a NULL
NestedInputs ==
    {<<t, Len(c)>> \o c \o z :
       t \in {48, 49, 112, 177, 240}, c \in Buffers(MaxInner),
       z \in {<<>>, <<5, 0>>}}

\* UTCTIME with and without seconds, a BIT STRING, strings
SampleInputs ==
    {<<23, 13, 50, 52, 48, 49, 51, 49, 50, 51, 53, 57, 53, 57, 90>>,
     <<23, 11, 50, 52, 48, 49, 51, 49, 50, 51, 53, 57, 90>>,
     <<3, 2, 7, 128>>, <<3, 2, 8, 128>>, <<3, 1, 0>>,
     <<12, 3, 97, 10, 13>>, <<30, 4, 216, 61, 222, 0>>,
     <<28, 4, 0, 1, 246, 0>>, <<30, 2, 0, 233>>, <<30, 2, 32, 172>>,
     <<48, 6, 2, 1, 1, 2, 1, 2>>, <<48, 5, 112, 3, 2, 1, 5>>,
     <<48, 8, 49, 3, 2, 1, 5, 13, 1, 128>>}

Inputs ==
    ShortInputs \cup LongFormInputs \cup IntegerInputs \cup OidInputs
    \cup TypeByteInputs \cup NestedInputs \cup SampleInputs

(***************************************************************************)
(* The state: a run of Parse(out, input) at the top level.                 *)
(***************************************************************************)
VARIABLES
    input,  \* the buffer Parse was called on
    data,   \* the variable data of Parse: what is left to decode
    out,    \* the sink
    err,    \* the error Parse returns, once pc = "done"
    pc,     \* "loop": in the for loop; "done": returned; "panic": panicked
    calls   \* the calls of parseElement so far

vars == <<input, data, out, err, pc, calls>>

Init ==
    /\ input \in Inputs
    /\ data = input
    /\ out = [lvl |-> 0, buf |-> <<>>]
    /\ err = Nil
    /\ pc = "loop"
    /\ calls = <<>>

\* one iteration of the loop of Parse, lines 56-62
ParseIter ==
    /\ pc = "loop"
    /\ Len(data) > 0
    /\ LET r == parseElement(out, data)
       IN  /\ out' = r.out
           /\ calls' = calls \o r.calls
           /\ IF r.fault
              THEN pc' = "panic" /\ UNCHANGED <<data, err>>
              ELSE IF r.err # Nil
              THEN pc' = "done" /\ err' = r.err /\ data' = r.rest
              ELSE pc' = "loop" /\ data' = r.rest /\ UNCHANGED err
    /\ UNCHANGED input

\* the loop ends and Parse returns nil, line 63
ParseReturn ==
    /\ pc = "loop"
    /\ Len(data) = 0
    /\ pc' = "done"
    /\ err' = Nil
    /\ UNCHANGED <<input, data, out, calls>>

Next == ParseIter \/ ParseReturn

Spec == Init /\ [][Next]_vars

(***************************************************************************)
(* What the properties below are stated with.                              *)
(***************************************************************************)
Call(i) == calls[i]

CallIds == 1..Len(calls)

\* the call got as far as calling decodeLength
ReachedLength(c) == c.stage \notin {"short", "longtag"}

\* decodeLength returned without an error
LengthDecoded(c) == c.stage \in {"shortcontent", "slice", "interpret"}

\* the text of a sequence of writes that hold only literal strings
RECURSIVE Text(_)
Text(writes) ==
    IF writes = <<>> THEN "" ELSE Concat(Head(writes).s) \o Text(Tail(writes))

RECURSIVE HexText(_)
HexText(bytes) ==
    IF bytes = <<>> THEN ""
    ELSE Hex02Upper(Head(bytes)) \o HexText(Tail(bytes))

\* the opaque rendering: the label, a colon-prefixed upper-case hex dump
HexDumpText(label, content) == label \o " :" \o HexText(content) \o "\n"

RECURSIVE StripZeros(_)
StripZeros(digits) ==
    IF digits = <<>> THEN <<>>
    ELSE IF Head(digits) = 0 THEN StripZeros(Tail(digits))
    ELSE digits

\* the register x holds the unsigned big-endian number the bytes spell
HoldsBigEndian(x, bytes) ==
    ~IntIsNeg(x) /\ StripZeros(x) = StripZeros(bytes)

\* C1: whenever a call of parseElement, at any depth, ends in an error,
\* Parse returns a non-nil error and that call is the last one made.
C1_ViolationAborts ==
    pc = "done" =>
        \A i \in CallIds :
            Call(i).err # Nil => err # Nil /\ i = Len(calls)

\* C2: Parse never ends in a run-time panic.
C2_NoPanic == pc # "panic"

\* C3: past decodeLength, a decoded length above the bytes that remain is
\* the "Short content" error with nothing interpreted, and otherwise the
\* content is exactly the next L bytes and the remainder the bytes after.
C3_ContentIsDeclaredLength ==
    \A i \in CallIds :
        LET c == Call(i)
        IN  LengthDecoded(c) =>
              IF IntLess(IntOf(c.avail), c.length)
              THEN /\ c.stage = "shortcontent"
                   /\ c.err = "Short content, need " \o FormatInt(c.length)
                              \o " bytes but have " \o Itoa(c.avail)
                   /\ c.render = <<>>
              ELSE /\ c.stage = "interpret"
                   /\ IntOf(Len(c.content)) = c.length
                   /\ c.content = SliceTo(c.after, Len(c.content))
                   /\ c.err = Nil /\ ~c.fault =>
                        c.rest = SliceFrom(c.after, Len(c.content))

\* C4: decodeLength on the non-empty slice after the type byte: the short
\* form returns the byte and consumes 1 byte; the long form with N bytes
\* present returns their big-endian value and consumes 1+N bytes; with
\* fewer than N bytes it returns an error.
C4_LengthDecoded ==
    \A i \in CallIds :
        LET c == Call(i)
            in == SliceFrom(c.data, 1)
            b == in[1]
            N == b - 128
        IN  ReachedLength(c) =>
              IF b < 128
              THEN /\ LengthDecoded(c)
                   /\ c.length = IntOf(b)
                   /\ c.after = SliceFrom(in, 1)
              ELSE IF Len(in) - 1 >= N
              THEN /\ LengthDecoded(c)
                   /\ HoldsBigEndian(c.length, SubSeq(in, 2, 1 + N))
                   /\ c.after = SliceFrom(in, 1 + N)
              ELSE c.stage = "length" /\ c.err # Nil

\* C5: every length decodeLength returns is non-negative.
C5_LengthNonNegative ==
    \A i \in CallIds : LengthDecoded(Call(i)) => ~IntIsNeg(Call(i).length)

\* C6: an INTEGER or ENUMERATED is rendered exactly once: in decimal when
\* the content has 1..7 bytes and its top bit is clear, as a hex dump in
\* every other case.
C6_IntegerRendered ==
    \A i \in CallIds :
        LET c == Call(i)
            label == IF c.typeByte = 2 THEN "INTEGER" ELSE "ENUMERATED"
            n == Len(c.content)
        IN  c.stage = "interpret" /\ c.typeByte \in {2, 10} =>
              IF n >= 1 /\ n <= 7 /\ c.content[1] < 128
              THEN Text(c.render) =
                     label \o " "
                     \o FormatUnsigned(Zeros(IntBytes - n) \o c.content)
                     \o "\n"
              ELSE Text(c.render) = HexDumpText(label, c.content)

\* the n low bits of v, most significant first
RECURSIVE LowBits(_, _)
LowBits(v, n) == IF n = 0 THEN <<>> ELSE Append(LowBits(v \div 2, n - 1), v % 2)

\* the bits of the digits of a number in base 2^n
RECURSIVE DigitBits(_, _)
DigitBits(digits, n) ==
    IF digits = <<>> THEN <<>>
    ELSE LowBits(Head(digits), n) \o DigitBits(Tail(digits), n)

\* the runs of bytes that each end at a byte whose top bit is clear
RECURSIVE ArcRunsOf(_, _)
ArcRunsOf(bytes, run) ==
    IF bytes = <<>> THEN <<>>
    ELSE IF Head(bytes) < 128
    THEN <<Append(run, Head(bytes))>> \o ArcRunsOf(Tail(bytes), <<>>)
    ELSE ArcRunsOf(Tail(bytes), Append(run, Head(bytes)))

\* the register x holds the base-128 number the low 7 bits of run spell
HoldsBase128(x, run) ==
    /\ ~IntIsNeg(x)
    /\ StripZeros(DigitBits(x, 8))
         = StripZeros(DigitBits([k \in 1..Len(run) |-> run[k] % 128], 7))

RECURSIVE DottedArcs(_)
DottedArcs(arcs) ==
    IF arcs = <<>> THEN ""
    ELSE "." \o FormatInt(Head(arcs)) \o DottedArcs(Tail(arcs))

\* C9: an OBJECT IDENTIFIER with content c is rendered as c[0]/40, c[0]%40
\* and one non-negative arc per run of c[1:], each the base-128 value of
\* its run; 2A 86 48 86 F7 0D is 1.2.840.113549; empty content is an error.
C9_OidArcs ==
    \A i \in CallIds :
        LET c == Call(i)
            runs == ArcRunsOf(SliceFrom(c.content, 1), <<>>)
        IN  c.stage = "interpret" /\ c.typeByte = 6 =>
              IF c.content = <<>> THEN c.err # Nil
              ELSE /\ c.err = Nil
                   /\ Len(c.arcs) = Len(runs)
                   /\ \A k \in 1..Len(runs) : HoldsBase128(c.arcs[k], runs[k])
                   /\ Text(c.render) =
                        "OID " \o FormatByte(c.content[1] \div 40) \o "."
                        \o FormatByte(c.content[1] % 40)
                        \o DottedArcs(c.arcs) \o "\n"
                   /\ c.content = <<42, 134, 72, 134, 247, 13>> =>
                        Text(c.render) = "OID 1.2.840.113549\n"

\* the first byte has the constructed bit and the 5-bit tag of SEQUENCE or SET
IsComposedSeqOrSet(typeByte) ==
    /\ (typeByte \div 32) % 2 = 1
    /\ typeByte % 32 \in {typeSequence, typeSet}

SeqOrSetLabel(typeByte) ==
    IF typeByte % 32 = typeSequence THEN "SEQUENCE\n" ELSE "SET\n"

\* call i printed its label and decoded its content as a nested stream one
\* level deeper: the next call, if the content has bytes, is on the content
Recursed(i) ==
    LET c == Call(i)
    IN  /\ c.recursed
        /\ c.render # <<>>
        /\ Head(c.render) = [lvl |-> c.depth, s |-> <<SeqOrSetLabel(c.typeByte)>>]
        /\ c.content # <<>> =>
             /\ i < Len(calls)
             /\ Call(i + 1).depth = c.depth + 1
             /\ Call(i + 1).data = c.content

\* call i rendered its content as the UNHANDLED-TAG hex dump
Unhandled(i) ==
    LET c == Call(i)
    IN  /\ ~c.recursed
        /\ \A k \in 1..Len(c.render) : c.render[k].lvl = c.depth
        /\ Text(c.render) =
             HexDumpText("UNHANDLED-TAG=" \o Hex02Lower(c.typeByte % 32),
                         c.content)

\* C7, as claimed: every composed element of tag SEQUENCE or SET, in any
\* class, is decoded recursively and not hex-dumped.
C7_AnyClassRecurses ==
    \A i \in CallIds :
        Call(i).stage = "interpret" /\ IsComposedSeqOrSet(Call(i).typeByte) =>
            Recursed(i) /\ ~Unhandled(i)

\* C7, amended: a composed SEQUENCE or SET is decoded recursively, one
\* level deeper, exactly when its class is UNIVERSAL (first byte 0x30 or
\* 0x31); in the classes APPLICATION, CONTEXT-SPECIFIC and PRIVATE it is
\* rendered as the UNHANDLED-TAG=10 or UNHANDLED-TAG=11 hex dump.
C7_UniversalRecurses ==
    \A i \in CallIds :
        Call(i).stage = "interpret" /\ IsComposedSeqOrSet(Call(i).typeByte) =>
            IF Call(i).typeByte \div 64 = 0
            THEN Recursed(i) /\ ~Unhandled(i)
            ELSE Unhandled(i) /\ ~Recursed(i)

\* a UNIVERSAL SEQUENCE with content was decoded into a nested call, and
\* an APPLICATION composed element of tag 16 with content was dumped
C7_Witness ==
    /\ \E i \in CallIds :
         /\ Call(i).typeByte = 48 /\ Call(i).stage = "interpret"
         /\ Call(i).content # <<>> /\ Recursed(i)
    /\ \E i \in CallIds :
         /\ Call(i).typeByte = 112 /\ Call(i).stage = "interpret"
         /\ Call(i).content # <<>> /\ Unhandled(i)

\* the type bytes the switch of parseElement has a case for
RecognizedTypeBytes ==
    {typeEndOfContent + primitive, typeBoolean + primitive,
     typeInteger + primitive, typeBitString + primitive,
     typeOctetString + primitive, typeNull + primitive,
     typeObjectIdentifier + primitive, typeObjectDescription + primitive,
     typeExternal + composed, typeReal + primitive,
     typeEnumerated + primitive, typeEmbeddedPDV + composed,
     typeUtf8String + primitive, typeRelativeOID + primitive,
     typeNumericString + primitive, typePrintableString + primitive,
     typeSet + composed, typeSequence + composed, typeT61String + primitive,
     typeVideotexString + primitive, typeIA5String + primitive,
     typeUTCTime + primitive, typeGeneralizedTime + primitive,
     typeGraphicString + primitive, typeVisibleString + primitive,
     typeGeneralString + primitive, typeUniversalString + primitive,
     typeCharacterString + primitive, typeBMPString + primitive}

\* the length prefix at the head of in is whole
PrefixWellFormed(in) ==
    in # <<>> /\ (in[1] < 128 \/ in[1] - 128 <= Len(in) - 1)

PrefixSize(in) == IF in[1] < 128 THEN 1 ELSE 1 + (in[1] - 128)

\* the digits of the declared length: the unsigned number the prefix spells
DeclaredDigits(in) ==
    StripZeros(IF in[1] < 128 THEN <<in[1]>> ELSE SubSeq(in, 2, in[1] - 128 + 1))

\* the declared content bytes are there: the declared length is at most
\* the count of the bytes after the prefix
ContentPresent(in) ==
    LET d == DeclaredDigits(in)
    IN  /\ Len(d) <= 2
        /\ IntValue(Zeros(IntBytes - Len(d)) \o d) <= Len(in) - PrefixSize(in)

DeclaredLength(in) ==
    LET d == DeclaredDigits(in) IN IntValue(Zeros(IntBytes - Len(d)) \o d)

\* the element at the head of data has an unrecognized type byte, no
\* long-form tag, a whole length prefix and its content
UnhandledElement(c) ==
    /\ Len(c.data) >= 2
    /\ c.typeByte \notin RecognizedTypeBytes
    /\ c.typeByte % 32 # typeIsLongFormTag
    /\ PrefixWellFormed(SliceFrom(c.data, 1))
    /\ ContentPresent(SliceFrom(c.data, 1))

\* C10: an element with an unrecognized type byte (and not the long-form
\* tag), a well-formed length prefix and its declared content present is
\* never an error: parseElement succeeds, renders the content as the
\* "UNHANDLED-TAG=<2 hex digits>" hex dump and returns the bytes after it.
C10_UnhandledNeverFails ==
    \A i \in CallIds :
        LET c == Call(i)
            in == SliceFrom(c.data, 1)
            from == 1 + PrefixSize(in)
            n == DeclaredLength(in)
        IN  UnhandledElement(c) =>
              /\ c.stage = "interpret"
              /\ c.err = Nil
              /\ ~c.fault
              /\ c.content = SubSeq(c.data, from + 1, from + n)
              /\ c.rest = SliceFrom(c.data, from + n)
              /\ Unhandled(i)

\* a context-specific element with content was dumped and the element
\* after it was decoded
C10_Witness ==
    \E i \in CallIds :
        /\ UnhandledElement(Call(i))
        /\ Call(i).typeByte = 128
        /\ Call(i).content # <<>>
        /\ Call(i).rest # <<>>
        /\ Unhandled(i)
        /\ i < Len(calls)

IsSuffix(t, u) == Len(t) <= Len(u) /\ t = SliceFrom(u, Len(u) - Len(t))

\* the call returned a remainder and no error
Succeeded(c) == c.stage = "interpret" /\ c.err = Nil /\ ~c.fault

\* what holds of every call made so far and of the loop of Parse
C8_Bounded ==
    /\ IsSuffix(data, input)
    /\ \A i \in CallIds :
         LET c == Call(i)
         IN  /\ Succeeded(c) =>
                  IsSuffix(c.rest, c.data) /\ Len(c.rest) <= Len(c.data) - 2
             /\ 2 * c.depth + Len(c.data) <= Len(input)
             /\ c.recursed =>
                  /\ Len(c.content) <= Len(c.data) - 2
                  /\ c.content # <<>> =>
                       i < Len(calls) /\ Call(i + 1).data = c.content
    /\ pc = "done" /\ err = Nil => data = <<>>

\* an iteration that stays in the loop leaves at least 2 bytes fewer
C8_Shrinks == pc' = "loop" => Len(data') <= Len(data) - 2

\* C8: Parse terminates: every successful parseElement returns a proper
\* suffix of its input at least 2 bytes shorter, the remaining buffer
\* shrinks by at least 2 bytes at every iteration that stays in the loop,
\* nested decoding gets a content shorter than its element (so the depth
\* is bounded by the input), and a nil return of the top-level Parse
\* leaves nothing unconsumed.
C8_Terminates == []C8_Bounded /\ [][C8_Shrinks]_vars

\* Parse returned nil after two top-level elements, one of them a SEQUENCE
\* whose content was decoded by a nested call
C8_Witness ==
    /\ pc = "done" /\ err = Nil /\ data = <<>>
    /\ \E i \in CallIds :
         /\ Call(i).depth = 0 /\ Call(i).recursed /\ Call(i).content # <<>>
         /\ Succeeded(Call(i)) /\ Succeeded(Call(i + 1))
    /\ \E i, j \in CallIds : i # j /\ Call(i).depth = 0 /\ Call(j).depth = 0

=============================================================================
